---- MODULE Spec2Model ----
(***************************************************************************)
(* Live quiz backend (src/app.py): the durable store (rooms, players,      *)
(* answers), the process-local indices (socket_index, rate_limits) and the *)
(* socket handlers and background loops, one action per store statement.   *)
(* A handler's Python code between two store statements runs with the      *)
(* statement that precedes it; other handlers may run between any two      *)
(* store statements of a handler.  Spec is a game of one room with two     *)
(* host connections, a player and the watchdog; SpecFinalize, SpecCrash    *)
(* and SpecReconnect are concurrent finalization, restarts of the process  *)
(* and reconnection.                                                       *)
(***************************************************************************)
EXTENDS Integers, Sequences, FiniteSets, TLC

\* ---------------------------------------------------------------- bounds
\* The clock is observed every TickStep seconds, up to MaxTime.
TickStep == 15
MaxTime == 30
\* The process restarts at most MaxCrashes times.
MaxCrashes == 1
\* The rate limiter is exercised with limits up to MaxLimit and windows up to
\* MaxWindow seconds, for MaxSeconds seconds and MaxAttempts attempts.
MaxLimit == 3
MaxWindow == 3
MaxSeconds == 5
MaxAttempts == 7

\* ------------------------------------------------------- program constants
NULL == -1
ROOM_TTL_SECONDS == 600
MAX_PLAYERS_PER_ROOM == 50
JOIN_RATE_LIMIT == 5
JOIN_RATE_WINDOW == 10
CREATE_ROOM_LIMIT == 3
CREATE_ROOM_WINDOW == 60
\* generate_unique_pin(max_tries: int = 20)
max_tries == 20
ANSWER_RATE_LIMIT == 3
ANSWER_RATE_WINDOW == 3

QUESTIONS ==
  << [correct_index |-> 1, duration |-> 15, options |-> 4],
     [correct_index |-> 2, duration |-> 15, options |-> 4] >>

\* QUESTIONS[q_index] of the source (0-based)
Question(q_index) == QUESTIONS[q_index + 1]

\* 0 <= q_index < len(QUESTIONS)
ValidIndex(q_index) == 0 <= q_index /\ q_index < Len(QUESTIONS)

\* ------------------------------------------------------- identities, inputs
HostSids == {"h1", "h2"}
PlayerSids == {"p1"}
NewSids == {"c1"}
Sids == HostSids \cup PlayerSids \cup NewSids
Watchdogs == {"w1", "w2", "w3"}
Cleaners == {"k1"}
Procs == Sids \cup Watchdogs \cup Cleaners

PinInputs == {"P1"}
TokenInputs == {"HT", "T1"}
OptionInputs == {1, 2}

VARIABLES
  now,           \* the clock (store now() and utc_now())
  rooms,         \* table rooms: sequence of rows, rooms[i].id = i
  players,       \* table players: set of rows
  answers,       \* table answers: set of rows
  socket_index,  \* sid -> meta (or NoMeta)
  rate_limits,   \* key -> list of timestamps
  pc,            \* position of each handler / background task
  frame,         \* local variables of each handler / background task
  broadcast,     \* events emitted to a room: event -> number of times emitted
  unicast,       \* the last event emitted to a single caller
  hist           \* history, read by no action: see NoHistory

vars == << now, rooms, players, answers, socket_index, rate_limits, pc, frame,
           broadcast, unicast, hist >>

store == << rooms, players, answers >>

\* fetched: answer key -> number of scoring passes whose SELECT read the row;
\* passes: (room id, question index) -> number of scoring passes that ran;
\* entered: room id -> the indexes the room was in QUESTION for, the latest of
\* them, and the index the finalize lock was last taken for;
\* crashes: number of restarts of the process;
\* admitted: the times of the attempts the rate limiter admitted, attempts: the
\* number of attempts it was asked about.
NoHistory == [fetched |-> << >>, passes |-> << >>, crashes |-> 0, admitted |-> << >>,
              attempts |-> 0,
              entered |-> [id \in {1} |->
                             [last |-> NULL, all |-> {}, finalized |-> NULL]]]

NoRoom == [id |-> 0]
NoMeta == [role |-> "none"]
NoMessage == [event |-> "none"]
\* The locals a handler still reads after the statement that set them: of a room
\* row its id, pin and (the row RETURNed by the finalize lock) question_ends_at.
EmptyFrame == [handler |-> "", room_id |-> 0, pin |-> "", state |-> "", limit |-> 0,
               window |-> 0,
               q_index |-> NULL, ends_at |-> NULL, option |-> NULL, token |-> "",
               score |-> 0, answers |-> {}, due |-> {}, tries |-> 0]

\* ---------------------------------------------------------------- helpers

\* SELECT * FROM rooms WHERE pin=%s AND closed_at IS NULL
get_room_by_pin(pin) ==
  LET hit == {i \in 1..Len(rooms) : rooms[i].pin = pin /\ rooms[i].closed_at = NULL}
  IN IF hit = {} THEN NoRoom ELSE rooms[CHOOSE i \in hit : TRUE]

require_room_state(room, allowed_states) == room.state \in allowed_states

\* datetime.timestamp(): seconds since the epoch; exact on the whole seconds kept here
timestamp(t) == t

\* emit(event, payload) to the caller
emit(sid, msg) == unicast' = msg

\* The payload fields the events carry; nth numbers the question_results events
\* of a room in the order they were emitted (0 for the other events).
Event(event, pin, index, ends_at, correct_index, nth) ==
  [event |-> event, pin |-> pin, index |-> index, ends_at |-> ends_at,
   correct_index |-> correct_index, nth |-> nth]

BagAdd(bag, k) ==
  IF k \in DOMAIN bag THEN [bag EXCEPT ![k] = @ + 1] ELSE bag @@ (k :> 1)

BagCount(bag, k) == IF k \in DOMAIN bag THEN bag[k] ELSE 0

\* socketio.emit(event, payload, room=pin)
socketio_emit(e) == broadcast' = BagAdd(broadcast, e)

\* number of events of one kind emitted to a room so far
Emitted(event, pin) ==
  LET es == {e \in DOMAIN broadcast : e.event = event /\ e.pin = pin}
      RECURSIVE Sum(_)
      Sum(S) == IF S = {} THEN 0
                ELSE LET e == CHOOSE x \in S : TRUE IN broadcast[e] + Sum(S \ {e})
  IN Sum(es)

\* emit("error", {"message": ...}); the text of the message is not kept
Error(message) == [event |-> "error"]

\* the handler returns
Return(p) ==
  /\ pc' = [pc EXCEPT ![p] = "idle"]
  /\ frame' = [frame EXCEPT ![p] = EmptyFrame]

Goto(p, label, fr) ==
  /\ pc' = [pc EXCEPT ![p] = label]
  /\ frame' = [frame EXCEPT ![p] = fr]

\* a pruning that keeps the timestamps exactly one window old
PrunedInclusive(bucket, window) == SelectSeq(bucket, LAMBDA t : now - t <= window)

\* bucket[:] = [t for t in bucket if now - t < window]
Pruned(bucket, window) == SelectSeq(bucket, LAMBDA t : now - t < window)

\* is_rate_limited: the verdict and the bucket it leaves behind
is_rate_limited(key, limit, window) ==
  LET bucket == Pruned(rate_limits[key], window)
      limited == Len(bucket) >= limit
  IN [limited |-> limited,
      bucket |-> IF limited THEN bucket ELSE Append(bucket, now)]

\* one call of is_rate_limited(key, limit, window) by a handler of connection
\* sid, with the limit and the window the handler passes
rate_limited_call(sid) ==
  /\ hist.attempts < MaxAttempts
  /\ LET key == << "answer", sid >>
         rl == is_rate_limited(key, frame[sid].limit, frame[sid].window)
     IN /\ rate_limits' = [rate_limits EXCEPT ![key] = rl.bucket]
        /\ hist' = [hist EXCEPT !.attempts = @ + 1,
                                !.admitted = IF rl.limited THEN @ ELSE Append(@, now)]
  /\ UNCHANGED << now, rooms, players, answers, socket_index, pc, frame, broadcast,
                  unicast >>

\* a second of time.time() passes
Second ==
  /\ now < MaxSeconds
  /\ now' = now + 1
  /\ UNCHANGED << rooms, players, answers, socket_index, rate_limits, pc, frame,
                  broadcast, unicast, hist >>

\* ---------------------------------------------------------------- the clock
Tick ==
  /\ now + TickStep <= MaxTime
  /\ now' = now + TickStep
  /\ UNCHANGED << rooms, players, answers, socket_index, rate_limits, pc, frame,
                  broadcast, unicast, hist >>

\* more than ROOM_TTL_SECONDS of time pass at once
Expire ==
  /\ now <= MaxTime
  /\ now' = now + ROOM_TTL_SECONDS + 1
  /\ UNCHANGED << rooms, players, answers, socket_index, rate_limits, pc, frame,
                  broadcast, unicast, hist >>

\* ------------------------------------------------- host actions (state-guarded)

\* a verification by the bearer token alone
verify_host_by_token(sid, pin, host_token) ==
  LET room == get_room_by_pin(pin)
  IN IF room.id = 0 THEN [ok |-> FALSE, message |-> "Room not found"]
     ELSE IF room.host_token # host_token
       THEN [ok |-> FALSE, message |-> "Invalid host token"]
     ELSE [ok |-> TRUE, room |-> room]

verify_host_and_get_room(sid, pin, host_token) ==
  LET room == get_room_by_pin(pin)
      meta == socket_index[sid]
  IN IF room.id = 0 THEN [ok |-> FALSE, message |-> "Room not found"]
     ELSE IF room.host_token # host_token
       THEN [ok |-> FALSE, message |-> "Invalid host token"]
     ELSE IF meta = NoMeta \/ meta.role # "host" \/ meta.pin # pin
       THEN [ok |-> FALSE, message |-> "Host socket not registered. Reconnect host."]
     ELSE [ok |-> TRUE, room |-> room]

start_game(sid, pin, host_token) ==
  /\ pc[sid] = "idle"
  /\ LET v == verify_host_and_get_room(sid, pin, host_token) IN
       IF ~v.ok
         THEN /\ emit(sid, Error(v.message))
              /\ UNCHANGED << pc, frame >>
       ELSE IF ~require_room_state(v.room, {"LOBBY"})
         THEN /\ emit(sid, Error("start_game allowed only in LOBBY"))
              /\ UNCHANGED << pc, frame >>
       ELSE /\ Goto(sid, "start_game_update",
                    [EmptyFrame EXCEPT !.handler = "start_game",
                                       !.room_id = v.room.id, !.pin = v.room.pin,
                                       !.token = host_token])
            /\ UNCHANGED unicast
  /\ UNCHANGED << now, rooms, players, answers, socket_index, rate_limits,
                  broadcast, hist >>

\* UPDATE rooms SET current_question_index=0, last_activity_at=now() WHERE id=%s
start_game_update(sid) ==
  /\ pc[sid] = "start_game_update"
  /\ rooms' = [rooms EXCEPT ![frame[sid].room_id] =
                 [@ EXCEPT !.current_question_index = 0, !.last_activity_at = now]]
  /\ pc' = [pc EXCEPT ![sid] = "start_question"]
  /\ UNCHANGED << now, players, answers, socket_index, rate_limits, frame,
                  broadcast, unicast, hist >>

\* start_question: the read of the room and the guards
start_question(p) ==
  /\ pc[p] = "start_question"
  /\ LET room == get_room_by_pin(frame[p].pin) IN
       IF room.id = 0 THEN Return(p)
       ELSE IF ~require_room_state(room, {"LOBBY", "RESULTS"}) THEN Return(p)
       ELSE IF ~ValidIndex(room.current_question_index) THEN Return(p)
       ELSE Goto(p, "start_question_update",
                 [frame[p] EXCEPT !.room_id = room.id,
                                  !.q_index = room.current_question_index])
  /\ UNCHANGED << now, rooms, players, answers, socket_index, rate_limits,
                  broadcast, unicast, hist >>

\* UPDATE rooms SET state='QUESTION', question_started_at=now(),
\*   question_ends_at=now() + duration, last_activity_at=now() WHERE id=%s
start_question_update(p) ==
  /\ pc[p] = "start_question_update"
  /\ rooms' = [rooms EXCEPT ![frame[p].room_id] =
                 [@ EXCEPT !.state = "QUESTION",
                           !.question_started_at = now,
                           !.question_ends_at = now + Question(frame[p].q_index).duration,
                           !.last_activity_at = now]]
  /\ pc' = [pc EXCEPT ![p] = "start_question_emit"]
  /\ hist' = [hist EXCEPT !.entered[frame[p].room_id] =
       [@ EXCEPT !.last = rooms[frame[p].room_id].current_question_index,
                 !.all = @ \cup {rooms[frame[p].room_id].current_question_index}]]
  /\ UNCHANGED << now, players, answers, socket_index, rate_limits, frame,
                  broadcast, unicast >>

\* room2 = get_room_by_pin(pin); socketio.emit("question_started", ...)
start_question_emit(p) ==
  /\ pc[p] = "start_question_emit"
  /\ LET room2 == get_room_by_pin(frame[p].pin) IN
       IF room2.id = 0 \/ room2.question_ends_at = NULL
         THEN UNCHANGED broadcast
         ELSE socketio_emit(Event("question_started", frame[p].pin, frame[p].q_index,
                                  timestamp(room2.question_ends_at), NULL, 0))
  /\ Return(p)
  /\ UNCHANGED << now, rooms, players, answers, socket_index, rate_limits,
                  unicast, hist >>

\* next_question: verification, the state guard and the choice of branch
next_question(sid, pin, host_token) ==
  /\ pc[sid] = "idle"
  /\ LET v == verify_host_and_get_room(sid, pin, host_token) IN
       IF ~v.ok
         THEN /\ emit(sid, Error(v.message))
              /\ UNCHANGED << pc, frame >>
       ELSE IF ~require_room_state(v.room, {"RESULTS"})
         THEN /\ emit(sid, Error("next_question allowed only in RESULTS"))
              /\ UNCHANGED << pc, frame >>
       ELSE /\ Goto(sid,
                    IF v.room.current_question_index + 1 >= Len(QUESTIONS)
                      THEN "next_question_finish" ELSE "next_question_update",
                    [EmptyFrame EXCEPT !.handler = "next_question",
                                       !.room_id = v.room.id, !.pin = v.room.pin,
                                       !.token = host_token,
                                       !.q_index = v.room.current_question_index + 1])
            /\ UNCHANGED unicast
  /\ UNCHANGED << now, rooms, players, answers, socket_index, rate_limits,
                  broadcast, hist >>

\* UPDATE rooms SET state='FINISHED', closed_at=now(), last_activity_at=now() WHERE id=%s
next_question_finish(sid) ==
  /\ pc[sid] = "next_question_finish"
  /\ rooms' = [rooms EXCEPT ![frame[sid].room_id] =
                 [@ EXCEPT !.state = "FINISHED", !.closed_at = now,
                           !.last_activity_at = now]]
  /\ pc' = [pc EXCEPT ![sid] = "next_question_emit"]
  /\ UNCHANGED << now, players, answers, socket_index, rate_limits, frame,
                  broadcast, unicast, hist >>

\* socketio.emit("game_finished", {"leaderboard": leaderboard_for_room_id(...)})
next_question_emit(sid) ==
  /\ pc[sid] = "next_question_emit"
  /\ socketio_emit(Event("game_finished", frame[sid].pin, NULL, NULL, NULL, 0))
  /\ Return(sid)
  /\ UNCHANGED << now, rooms, players, answers, socket_index, rate_limits,
                  unicast, hist >>

\* UPDATE rooms SET current_question_index=%s, last_activity_at=now() WHERE id=%s
next_question_update(sid) ==
  /\ pc[sid] = "next_question_update"
  /\ rooms' = [rooms EXCEPT ![frame[sid].room_id] =
                 [@ EXCEPT !.current_question_index = frame[sid].q_index,
                           !.last_activity_at = now]]
  /\ pc' = [pc EXCEPT ![sid] = "start_question"]
  /\ UNCHANGED << now, players, answers, socket_index, rate_limits, frame,
                  broadcast, unicast, hist >>

\* ------------------------------------------------------------ answers (player)

AnswerKey(a) == << a.room_id, a.player_token, a.question_index >>

\* submit_answer up to the insert: rate limit, read of the room, every guard
submit_answer(sid, pin, option, player_token) ==
  /\ pc[sid] = "idle"
  /\ LET rl == is_rate_limited(<< "answer", sid >>, ANSWER_RATE_LIMIT, ANSWER_RATE_WINDOW)
         room == get_room_by_pin(pin)
         meta == socket_index[sid]
         accepted ==
           /\ ~rl.limited
           /\ room.id # 0
           /\ require_room_state(room, {"QUESTION"})
           /\ meta # NoMeta /\ meta.role = "player" /\ meta.pin = pin
           /\ meta.token = player_token
           /\ ValidIndex(room.current_question_index)
           /\ 0 <= option /\ option < Question(room.current_question_index).options
           /\ room.question_ends_at # NULL
           /\ ~(now > room.question_ends_at)
     IN /\ rate_limits' = [rate_limits EXCEPT ![<< "answer", sid >>] = rl.bucket]
        /\ IF accepted
             THEN Goto(sid, "submit_answer_insert",
                       [EmptyFrame EXCEPT !.handler = "submit_answer",
                                          !.room_id = room.id, !.pin = pin,
                                          !.q_index = room.current_question_index,
                                          !.option = option, !.token = player_token])
             ELSE UNCHANGED << pc, frame >>
  /\ UNCHANGED << now, rooms, players, answers, socket_index, broadcast, unicast,
                  hist >>

\* an INSERT whose conflict clause is DO UPDATE: the last submission wins
submit_answer_upsert(sid) ==
  /\ pc[sid] = "submit_answer_insert"
  /\ LET row == [room_id |-> frame[sid].room_id, player_token |-> frame[sid].token,
                 question_index |-> frame[sid].q_index,
                 option_index |-> frame[sid].option, answered_at |-> now]
     IN answers' = {a \in answers : AnswerKey(a) # AnswerKey(row)} \cup {row}
  /\ pc' = [pc EXCEPT ![sid] = "submit_answer_touch"]
  /\ UNCHANGED << now, rooms, players, socket_index, rate_limits, frame, broadcast,
                  unicast, hist >>

\* INSERT INTO answers(...) VALUES (...) ON CONFLICT (room_id, player_token,
\* question_index) DO NOTHING; answered_at defaults to now()
submit_answer_insert(sid) ==
  /\ pc[sid] = "submit_answer_insert"
  /\ LET row == [room_id |-> frame[sid].room_id, player_token |-> frame[sid].token,
                 question_index |-> frame[sid].q_index,
                 option_index |-> frame[sid].option, answered_at |-> now]
     IN answers' = IF \E a \in answers : AnswerKey(a) = AnswerKey(row)
                     THEN answers ELSE answers \cup {row}
  /\ pc' = [pc EXCEPT ![sid] = "submit_answer_touch"]
  /\ UNCHANGED << now, rooms, players, socket_index, rate_limits, frame, broadcast,
                  unicast, hist >>

\* touch_room_activity(room["id"])
submit_answer_touch(sid) ==
  /\ pc[sid] = "submit_answer_touch"
  /\ rooms' = [rooms EXCEPT ![frame[sid].room_id] = [@ EXCEPT !.last_activity_at = now]]
  /\ Return(sid)
  /\ UNCHANGED << now, players, answers, socket_index, rate_limits, broadcast,
                  unicast, hist >>

\* ---------------------------------------------------------------- create room

\* a row of rooms as the INSERT of create_room makes it
Room(id, pin, host_token) ==
  [id |-> id, pin |-> pin, host_token |-> host_token, state |-> "LOBBY",
   current_question_index |-> -1, question_started_at |-> NULL,
   question_ends_at |-> NULL, host_connected |-> TRUE,
   host_disconnected_at |-> NULL, last_activity_at |-> now, closed_at |-> NULL]

\* generate_pin(): six random digits; the pins a draw can give
PinDraws == {"P1", "P2", "P3"}

\* uuid.uuid4(): a host token no room and no handler in flight has
HostTokenDraws == {"HA", "HB"}
FreshHostTokens ==
  HostTokenDraws \ ({rooms[i].host_token : i \in 1..Len(rooms)}
                      \cup {frame[p].token : p \in DOMAIN frame})

\* create_room: the rate limit
create_room(sid) ==
  /\ pc[sid] = "idle"
  /\ LET rl == is_rate_limited(<< "create", sid >>, CREATE_ROOM_LIMIT, CREATE_ROOM_WINDOW)
     IN /\ rate_limits' = [rate_limits EXCEPT ![<< "create", sid >>] = rl.bucket]
        /\ IF rl.limited
             THEN /\ emit(sid, Error("Too many rooms created. Slow down."))
                  /\ UNCHANGED << pc, frame >>
             ELSE /\ Goto(sid, "generate_unique_pin",
                          [EmptyFrame EXCEPT !.handler = "create_room"])
                  /\ UNCHANGED unicast
  /\ UNCHANGED << now, rooms, players, answers, socket_index, broadcast, hist >>

\* generate_unique_pin, one iteration: pin = generate_pin();
\* SELECT 1 FROM rooms WHERE pin=%s AND closed_at IS NULL; after max_tries
\* iterations RuntimeError ends the handler. host_token = uuid.uuid4()
generate_unique_pin(sid) ==
  /\ pc[sid] = "generate_unique_pin"
  /\ \E pin \in PinDraws :
       IF get_room_by_pin(pin).id = 0
         THEN \E host_token \in FreshHostTokens :
                Goto(sid, "create_room_insert",
                     [frame[sid] EXCEPT !.pin = pin, !.token = host_token])
       ELSE IF frame[sid].tries + 1 >= max_tries
         THEN Return(sid)
       ELSE Goto(sid, "generate_unique_pin",
                 [frame[sid] EXCEPT !.tries = @ + 1])
  /\ UNCHANGED << now, rooms, players, answers, socket_index, rate_limits,
                  broadcast, unicast, hist >>

\* the row INSERT INTO rooms(pin, host_token, state, ...) VALUES (%s, %s, 'LOBBY',
\* -1, true, NULL) adds, and the history of the new room
Inserted(sid) ==
  /\ rooms' = Append(rooms, Room(Len(rooms) + 1, frame[sid].pin, frame[sid].token))
  /\ hist' = [hist EXCEPT !.entered =
       [id \in DOMAIN @ \cup {Len(rooms) + 1} |->
          IF id \in DOMAIN @ THEN @[id]
          ELSE [last |-> NULL, all |-> {}, finalized |-> NULL]]]
  /\ pc' = [pc EXCEPT ![sid] = "create_room_register"]
  /\ UNCHANGED frame

\* an INSERT into a table whose pin column is not UNIQUE
create_room_insert_unconstrained(sid) ==
  /\ pc[sid] = "create_room_insert"
  /\ Inserted(sid)
  /\ UNCHANGED << now, players, answers, socket_index, rate_limits, broadcast,
                  unicast >>

\* INSERT INTO rooms(...): pin VARCHAR(6) UNIQUE NOT NULL, so a pin that any
\* row has, open or closed, raises and the handler ends
create_room_insert(sid) ==
  /\ pc[sid] = "create_room_insert"
  /\ IF \E i \in 1..Len(rooms) : rooms[i].pin = frame[sid].pin
       THEN Return(sid) /\ UNCHANGED << rooms, hist >>
       ELSE Inserted(sid)
  /\ UNCHANGED << now, players, answers, socket_index, rate_limits, broadcast,
                  unicast >>

\* join_room(pin); socket_index[request.sid] = {...}; emit("room_created", ...)
create_room_register(sid) ==
  /\ pc[sid] = "create_room_register"
  /\ socket_index' = [socket_index EXCEPT ![sid] =
       [pin |-> frame[sid].pin, role |-> "host", token |-> frame[sid].token]]
  /\ emit(sid, [event |-> "room_created", pin |-> frame[sid].pin,
                host_token |-> frame[sid].token])
  /\ Return(sid)
  /\ UNCHANGED << now, rooms, players, answers, rate_limits, broadcast, hist >>

\* ----------------------------------------------------------------------- join

\* len(str(pin)) and len(name.strip()) of the inputs of join_room
PinLength(pin) == IF pin = "12345" THEN 5 ELSE 6
NameLength(name) == IF name = "" THEN 0 ELSE IF name = "over40" THEN 41 ELSE 3

\* uuid.uuid4(): a token no player has
NewTokens == {"N1", "N2"}
FreshTokens == NewTokens \ {r.player_token : r \in players}

JoinError(message) == [event |-> "join_error", message |-> message]

\* join_game: the rate limit, the checks of the input, the read of the room
join_game(sid, pin, name) ==
  /\ pc[sid] = "idle"
  /\ LET rl == is_rate_limited(<< "join", sid >>, JOIN_RATE_LIMIT, JOIN_RATE_WINDOW)
         room == get_room_by_pin(pin)
     IN /\ rate_limits' = [rate_limits EXCEPT ![<< "join", sid >>] = rl.bucket]
        /\ IF rl.limited
             THEN emit(sid, JoinError("Too many join attempts")) /\ UNCHANGED << pc, frame >>
           ELSE IF PinLength(pin) # 6
             THEN emit(sid, JoinError("Invalid PIN")) /\ UNCHANGED << pc, frame >>
           ELSE IF NameLength(name) = 0 \/ NameLength(name) > 40
             THEN emit(sid, JoinError("Invalid name")) /\ UNCHANGED << pc, frame >>
           ELSE IF room.id = 0
             THEN emit(sid, JoinError("Room not found")) /\ UNCHANGED << pc, frame >>
           ELSE IF room.state = "FINISHED"
             THEN emit(sid, JoinError("Game finished")) /\ UNCHANGED << pc, frame >>
           ELSE /\ Goto(sid, "join_count",
                        [EmptyFrame EXCEPT !.handler = "join_game",
                                           !.room_id = room.id, !.pin = pin])
                /\ UNCHANGED unicast
  /\ UNCHANGED << now, rooms, players, answers, socket_index, broadcast, hist >>

\* a count that reserves the seat first: the row is inserted, then counted
join_count_reserving(sid) ==
  /\ pc[sid] = "join_count"
  /\ \E token \in FreshTokens :
       /\ players' = players \cup
            {[room_id |-> frame[sid].room_id, player_token |-> token, score |-> 0,
              connected |-> TRUE, last_seen_at |-> now]}
       /\ IF Cardinality({r \in players : r.room_id = frame[sid].room_id})
               >= MAX_PLAYERS_PER_ROOM
            THEN emit(sid, JoinError("Room is full")) /\ Return(sid)
            ELSE /\ Goto(sid, "join_touch", [frame[sid] EXCEPT !.token = token])
                 /\ UNCHANGED unicast
  /\ UNCHANGED << now, rooms, answers, socket_index, rate_limits, broadcast, hist >>

\* SELECT COUNT(*) AS c FROM players WHERE room_id=%s; player_token = uuid.uuid4()
join_count(sid) ==
  /\ pc[sid] = "join_count"
  /\ IF Cardinality({r \in players : r.room_id = frame[sid].room_id})
         >= MAX_PLAYERS_PER_ROOM
       THEN emit(sid, JoinError("Room is full")) /\ Return(sid)
       ELSE /\ \E token \in FreshTokens :
                 Goto(sid, "join_insert", [frame[sid] EXCEPT !.token = token])
            /\ UNCHANGED unicast
  /\ UNCHANGED << now, rooms, players, answers, socket_index, rate_limits,
                  broadcast, hist >>

\* INSERT INTO players(room_id, player_token, name, score, connected)
\*   VALUES (%s, %s, %s, 0, true)
join_insert(sid) ==
  /\ pc[sid] = "join_insert"
  /\ players' = players \cup
       {[room_id |-> frame[sid].room_id, player_token |-> frame[sid].token,
         score |-> 0, connected |-> TRUE, last_seen_at |-> now]}
  /\ pc' = [pc EXCEPT ![sid] = "join_touch"]
  /\ UNCHANGED << now, rooms, answers, socket_index, rate_limits, frame, broadcast,
                  unicast, hist >>

\* touch_room_activity; join_room; socket_index[sid] = ...; emit("joined");
\* socketio.emit("player_joined", ...)
join_touch(sid) ==
  /\ pc[sid] = "join_touch"
  /\ rooms' = [rooms EXCEPT ![frame[sid].room_id] = [@ EXCEPT !.last_activity_at = now]]
  /\ socket_index' = [socket_index EXCEPT ![sid] =
       [pin |-> frame[sid].pin, role |-> "player", token |-> frame[sid].token]]
  /\ emit(sid, [event |-> "joined"])
  /\ socketio_emit(Event("player_joined", frame[sid].pin, NULL, NULL, NULL, 0))
  /\ Return(sid)
  /\ UNCHANGED << now, players, answers, rate_limits, hist >>

\* ----------------------------------------------------------------- disconnect

\* on_disconnect: meta = socket_index.pop(sid); the read of the room
on_disconnect(sid) ==
  /\ pc[sid] = "idle"
  /\ LET meta == socket_index[sid] IN
       /\ socket_index' = [socket_index EXCEPT ![sid] = NoMeta]
       /\ IF meta = NoMeta THEN UNCHANGED << pc, frame >>
          ELSE LET room == get_room_by_pin(meta.pin) IN
            IF room.id = 0 \/ meta.role \notin {"host", "player"}
              THEN UNCHANGED << pc, frame >>
              ELSE Goto(sid, "on_disconnect_update",
                        [EmptyFrame EXCEPT !.handler = "on_disconnect",
                                           !.room_id = room.id, !.pin = meta.pin,
                                           !.state = meta.role, !.token = meta.token])
  /\ UNCHANGED << now, rooms, players, answers, rate_limits, broadcast, unicast, hist >>

\* UPDATE rooms SET host_connected=false, host_disconnected_at=now(),
\*   last_activity_at=now() WHERE id=%s, or
\* UPDATE players SET connected=false, last_seen_at=now()
\*   WHERE room_id=%s AND player_token=%s
on_disconnect_update(sid) ==
  /\ pc[sid] = "on_disconnect_update"
  /\ IF frame[sid].state = "host"
       THEN /\ rooms' = [rooms EXCEPT ![frame[sid].room_id] =
                          [@ EXCEPT !.host_connected = FALSE,
                                    !.host_disconnected_at = now,
                                    !.last_activity_at = now]]
            /\ UNCHANGED players
       ELSE /\ players' = {IF r.room_id = frame[sid].room_id
                               /\ r.player_token = frame[sid].token
                             THEN [r EXCEPT !.connected = FALSE, !.last_seen_at = now]
                             ELSE r : r \in players}
            /\ UNCHANGED rooms
  /\ Return(sid)
  /\ UNCHANGED << now, answers, socket_index, rate_limits, broadcast, unicast, hist >>

\* ------------------------------------------------------------------ reconnect

\* the hydration payload, built from the room row read when the handler began
Payload(event, fr) ==
  [event |-> event, state |-> fr.state, score |-> fr.score,
   current_question_index |-> fr.q_index,
   ends_at |-> IF fr.state = "QUESTION" /\ fr.ends_at # NULL /\ ValidIndex(fr.q_index)
                 THEN timestamp(fr.ends_at) ELSE NULL,
   correct_index |-> IF fr.state = "RESULTS" /\ ValidIndex(fr.q_index)
                       THEN Question(fr.q_index).correct_index ELSE NULL]

\* a hydration that takes the start of the question for its deadline
SnapshotOfStart(handler, room, token) ==
  [EmptyFrame EXCEPT !.handler = handler, !.room_id = room.id, !.pin = room.pin,
                     !.state = room.state, !.q_index = room.current_question_index,
                     !.ends_at = room.question_started_at, !.token = token]

Snapshot(handler, room, token) ==
  [EmptyFrame EXCEPT !.handler = handler, !.room_id = room.id, !.pin = room.pin,
                     !.state = room.state, !.q_index = room.current_question_index,
                     !.ends_at = room.question_ends_at, !.token = token]

\* reconnect_player: the read of the room
reconnect_player(sid, pin, player_token) ==
  /\ pc[sid] = "idle"
  /\ LET room == get_room_by_pin(pin) IN
       IF room.id = 0
         THEN /\ emit(sid, [event |-> "reconnect_error"])
              /\ UNCHANGED << pc, frame >>
         ELSE /\ Goto(sid, "reconnect_player_find",
                      Snapshot("reconnect_player", room, player_token))
              /\ UNCHANGED unicast
  /\ UNCHANGED << now, rooms, players, answers, socket_index, rate_limits,
                  broadcast, hist >>

\* SELECT * FROM players WHERE room_id=%s AND player_token=%s
reconnect_player_find(sid) ==
  /\ pc[sid] = "reconnect_player_find"
  /\ LET found == {r \in players : r.room_id = frame[sid].room_id
                                    /\ r.player_token = frame[sid].token}
     IN IF found = {}
          THEN /\ emit(sid, [event |-> "reconnect_error"])
               /\ Return(sid)
          ELSE /\ Goto(sid, "reconnect_player_update",
                       [frame[sid] EXCEPT !.score = (CHOOSE r \in found : TRUE).score])
               /\ UNCHANGED unicast
  /\ UNCHANGED << now, rooms, players, answers, socket_index, rate_limits,
                  broadcast, hist >>

\* a reconnection that stores the player anew, as join_game does
reconnect_player_rejoin(sid) ==
  /\ pc[sid] = "reconnect_player_update"
  /\ players' = {IF r.room_id = frame[sid].room_id /\ r.player_token = frame[sid].token
                   THEN [r EXCEPT !.connected = TRUE, !.last_seen_at = now, !.score = 0]
                   ELSE r : r \in players}
  /\ pc' = [pc EXCEPT ![sid] = "reconnect_player_touch"]
  /\ UNCHANGED << now, rooms, answers, socket_index, rate_limits, frame, broadcast,
                  unicast, hist >>

\* UPDATE players SET connected=true, last_seen_at=now() WHERE id=%s
reconnect_player_update(sid) ==
  /\ pc[sid] = "reconnect_player_update"
  /\ players' = {IF r.room_id = frame[sid].room_id /\ r.player_token = frame[sid].token
                   THEN [r EXCEPT !.connected = TRUE, !.last_seen_at = now]
                   ELSE r : r \in players}
  /\ pc' = [pc EXCEPT ![sid] = "reconnect_player_touch"]
  /\ UNCHANGED << now, rooms, answers, socket_index, rate_limits, frame, broadcast,
                  unicast, hist >>

\* touch_room_activity; join_room; socket_index[sid] = ...; the payload, emitted
\* here unless the results need the leaderboard read
reconnect_player_touch(sid) ==
  /\ pc[sid] = "reconnect_player_touch"
  /\ rooms' = [rooms EXCEPT ![frame[sid].room_id] = [@ EXCEPT !.last_activity_at = now]]
  /\ socket_index' = [socket_index EXCEPT ![sid] =
       [pin |-> frame[sid].pin, role |-> "player", token |-> frame[sid].token]]
  /\ IF frame[sid].state = "RESULTS" /\ ValidIndex(frame[sid].q_index)
       THEN /\ pc' = [pc EXCEPT ![sid] = "reconnect_player_results"]
            /\ UNCHANGED << frame, unicast >>
       ELSE /\ emit(sid, Payload("reconnected", frame[sid]))
            /\ Return(sid)
  /\ UNCHANGED << now, players, answers, rate_limits, broadcast, hist >>

\* leaderboard_for_room_id(room["id"]); emit("reconnected", payload)
reconnect_player_results(sid) ==
  /\ pc[sid] = "reconnect_player_results"
  /\ emit(sid, Payload("reconnected", frame[sid]))
  /\ Return(sid)
  /\ UNCHANGED << now, rooms, players, answers, socket_index, rate_limits,
                  broadcast, hist >>

\* reconnect_host: the read of the room and the check of the token
reconnect_host(sid, pin, host_token) ==
  /\ pc[sid] = "idle"
  /\ LET room == get_room_by_pin(pin) IN
       IF room.id = 0 \/ room.host_token # host_token
         THEN /\ emit(sid, [event |-> "reconnect_error"])
              /\ UNCHANGED << pc, frame >>
         ELSE /\ Goto(sid, "reconnect_host_update",
                      Snapshot("reconnect_host", room, host_token))
              /\ UNCHANGED unicast
  /\ UNCHANGED << now, rooms, players, answers, socket_index, rate_limits,
                  broadcast, hist >>

\* UPDATE rooms SET host_connected=true, host_disconnected_at=NULL,
\*   last_activity_at=now() WHERE id=%s; join_room; socket_index[sid] = ...
reconnect_host_update(sid) ==
  /\ pc[sid] = "reconnect_host_update"
  /\ rooms' = [rooms EXCEPT ![frame[sid].room_id] =
                 [@ EXCEPT !.host_connected = TRUE, !.host_disconnected_at = NULL,
                           !.last_activity_at = now]]
  /\ socket_index' = [socket_index EXCEPT ![sid] =
       [pin |-> frame[sid].pin, role |-> "host", token |-> frame[sid].token]]
  /\ pc' = [pc EXCEPT ![sid] = "reconnect_host_players"]
  /\ UNCHANGED << now, players, answers, rate_limits, frame, broadcast, unicast,
                  hist >>

\* "players": leaderboard_for_room_id(room["id"]); the payload, emitted here
\* unless the results need the second leaderboard read
reconnect_host_players(sid) ==
  /\ pc[sid] = "reconnect_host_players"
  /\ IF frame[sid].state = "RESULTS" /\ ValidIndex(frame[sid].q_index)
       THEN /\ pc' = [pc EXCEPT ![sid] = "reconnect_host_results"]
            /\ UNCHANGED << frame, unicast >>
       ELSE /\ emit(sid, Payload("host_reconnected", frame[sid]))
            /\ Return(sid)
  /\ UNCHANGED << now, rooms, players, answers, socket_index, rate_limits,
                  broadcast, hist >>

\* leaderboard_for_room_id(room["id"]); emit("host_reconnected", payload)
reconnect_host_results(sid) ==
  /\ pc[sid] = "reconnect_host_results"
  /\ emit(sid, Payload("host_reconnected", frame[sid]))
  /\ Return(sid)
  /\ UNCHANGED << now, rooms, players, answers, socket_index, rate_limits,
                  broadcast, hist >>

\* ------------------------------------------------------------------- scoring

\* points whose bonus divides before it multiplies
PointsTruncated(ends_at, answered_at, duration) ==
  LET time_left == IF ends_at - answered_at < 0 THEN 0 ELSE ends_at - answered_at
      d == IF duration > 1 THEN duration ELSE 1
  IN 1000 + (time_left \div d) * 500

\* points = base_points + bonus, over whole seconds
Points(ends_at, answered_at, duration) ==
  LET time_left == IF ends_at - answered_at < 0 THEN 0 ELSE ends_at - answered_at
      d == IF duration > 1 THEN duration ELSE 1
      bonus == (time_left * 500) \div d
  IN 1000 + (IF bonus < 0 THEN 0 ELSE bonus)

\* finish_question_if_due returns to the loop of watchdog_task
FinishReturn(w) ==
  IF frame[w].due = {} THEN Return(w)
  ELSE \E pin \in frame[w].due :
         Goto(w, "finish_question_if_due",
              [EmptyFrame EXCEPT !.handler = "watchdog_task", !.pin = pin,
                                 !.due = frame[w].due \ {pin}])

\* finish_question_if_due: the read of the room and the guards
finish_question_if_due(w) ==
  /\ pc[w] = "finish_question_if_due"
  /\ LET room == get_room_by_pin(frame[w].pin) IN
       IF room.id = 0 THEN FinishReturn(w)
       ELSE IF ~require_room_state(room, {"QUESTION"}) THEN FinishReturn(w)
       ELSE IF room.question_ends_at = NULL THEN FinishReturn(w)
       ELSE IF now <= room.question_ends_at THEN FinishReturn(w)
       ELSE Goto(w, "finish_lock", [frame[w] EXCEPT !.room_id = room.id])
  /\ UNCHANGED << now, rooms, players, answers, socket_index, rate_limits,
                  broadcast, unicast, hist >>

\* the finalize lock without "AND state='QUESTION'"
LockConditionDropped(row) == TRUE

\* UPDATE rooms SET state='RESULTS', last_activity_at=now()
\*   WHERE id=%s AND state='QUESTION' RETURNING ...
LockCondition(row) == row.state = "QUESTION"

finish_lock(w) ==
  /\ pc[w] = "finish_lock"
  /\ LET id == frame[w].room_id
         locked == [rooms[id] EXCEPT !.state = "RESULTS", !.last_activity_at = now]
     IN IF ~LockCondition(rooms[id])
          THEN /\ FinishReturn(w)
               /\ UNCHANGED << rooms, hist >>
        ELSE /\ rooms' = [rooms EXCEPT ![id] = locked]
             /\ hist' = [hist EXCEPT !.entered[id].finalized =
                                       locked.current_question_index]
             /\ IF ~ValidIndex(locked.current_question_index)
                  THEN FinishReturn(w)
                  ELSE Goto(w, "finish_fetch",
                            [frame[w] EXCEPT !.ends_at = locked.question_ends_at,
                                             !.q_index = locked.current_question_index])
  /\ UNCHANGED << now, players, answers, socket_index, rate_limits, broadcast,
                  unicast >>

\* SELECT player_token, option_index, answered_at FROM answers
\*   WHERE room_id=%s AND question_index=%s
finish_fetch(w) ==
  /\ pc[w] = "finish_fetch"
  /\ LET rows == {a \in answers : a.room_id = frame[w].room_id
                                  /\ a.question_index = frame[w].q_index}
         keys == {AnswerKey(a) : a \in rows}
     IN /\ Goto(w, "finish_score", [frame[w] EXCEPT !.answers = rows])
        /\ hist' = [hist EXCEPT
             !.fetched = [k \in DOMAIN @ \cup keys |->
                            BagCount(@, k) + (IF k \in keys THEN 1 ELSE 0)],
             !.passes = BagAdd(@, << frame[w].room_id, frame[w].q_index >>)]
  /\ UNCHANGED << now, rooms, players, answers, socket_index, rate_limits,
                  broadcast, unicast >>

\* the rows of the loop that reach the UPDATE: opt == correct
Scoring(w) ==
  {a \in frame[w].answers : a.option_index = Question(frame[w].q_index).correct_index}

\* an UPDATE that sets the score to the points of the question
finish_score_assigning(w) ==
  /\ pc[w] = "finish_score"
  /\ \E a \in Scoring(w) :
       LET points == Points(frame[w].ends_at, a.answered_at,
                            Question(frame[w].q_index).duration)
       IN /\ players' = {IF r.room_id = frame[w].room_id
                            /\ r.player_token = a.player_token
                           THEN [r EXCEPT !.score = points, !.last_seen_at = now]
                           ELSE r : r \in players}
          /\ frame' = [frame EXCEPT ![w].answers = @ \ {a}]
  /\ UNCHANGED << now, rooms, answers, socket_index, rate_limits, pc, broadcast,
                  unicast, hist >>

\* UPDATE players SET score = score + %s, last_seen_at=now()
\*   WHERE room_id=%s AND player_token=%s      (one iteration of the loop)
finish_score(w) ==
  /\ pc[w] = "finish_score"
  /\ \E a \in Scoring(w) :
       LET points == Points(frame[w].ends_at, a.answered_at,
                            Question(frame[w].q_index).duration)
       IN /\ players' = {IF r.room_id = frame[w].room_id
                            /\ r.player_token = a.player_token
                           THEN [r EXCEPT !.score = @ + points, !.last_seen_at = now]
                           ELSE r : r \in players}
          /\ frame' = [frame EXCEPT ![w].answers = @ \ {a}]
  /\ UNCHANGED << now, rooms, answers, socket_index, rate_limits, pc, broadcast,
                  unicast, hist >>

\* socketio.emit("question_results", {"correct_index": correct, "leaderboard": ...})
finish_emit(w) ==
  /\ pc[w] = "finish_score"
  /\ Scoring(w) = {}
  /\ socketio_emit(Event("question_results", frame[w].pin, NULL, NULL,
                         Question(frame[w].q_index).correct_index,
                         Emitted("question_results", frame[w].pin) + 1))
  /\ FinishReturn(w)
  /\ UNCHANGED << now, rooms, players, answers, socket_index, rate_limits,
                  unicast, hist >>

\* ------------------------------------------------------------ background tasks

\* SELECT pin FROM rooms WHERE closed_at IS NULL AND state='QUESTION'
\*   AND question_ends_at IS NOT NULL AND question_ends_at < now()
RoomsDue ==
  {rooms[i].pin : i \in {j \in 1..Len(rooms) :
      /\ rooms[j].closed_at = NULL
      /\ rooms[j].state = "QUESTION"
      /\ rooms[j].question_ends_at # NULL
      /\ rooms[j].question_ends_at < now}}

\* one round of the loop of watchdog_task: the scan, then the first call
watchdog_task(w) ==
  /\ pc[w] = "idle"
  /\ IF RoomsDue = {}
       THEN UNCHANGED << pc, frame >>
       ELSE \E pin \in RoomsDue :
              Goto(w, "finish_question_if_due",
                   [EmptyFrame EXCEPT !.handler = "watchdog_task", !.pin = pin,
                                      !.due = RoomsDue \ {pin}])
  /\ UNCHANGED << now, rooms, players, answers, socket_index, rate_limits,
                  broadcast, unicast, hist >>

\* ------------------------------------------------------------------ cleanup

\* SELECT pin FROM rooms WHERE closed_at IS NULL AND host_connected=false
\*   AND host_disconnected_at IS NOT NULL
\*   AND host_disconnected_at < now() - (%s || ' seconds')::interval
RoomsExpired ==
  {rooms[i].pin : i \in {j \in 1..Len(rooms) :
      /\ rooms[j].closed_at = NULL
      /\ rooms[j].host_connected = FALSE
      /\ rooms[j].host_disconnected_at # NULL
      /\ rooms[j].host_disconnected_at < now - ROOM_TTL_SECONDS}}

\* the loop of cleanup_task after a call of close_room: the next pin, or the sleep
CloseReturn(k) ==
  IF frame[k].due = {} THEN Return(k)
  ELSE \E pin \in frame[k].due :
         Goto(k, "close_room",
              [EmptyFrame EXCEPT !.handler = "cleanup_task", !.pin = pin,
                                 !.due = frame[k].due \ {pin}])

\* one round of the loop of cleanup_task: the scan, then the first call
cleanup_task(k) ==
  /\ pc[k] = "idle"
  /\ IF RoomsExpired = {}
       THEN UNCHANGED << pc, frame >>
       ELSE \E pin \in RoomsExpired :
              Goto(k, "close_room",
                   [EmptyFrame EXCEPT !.handler = "cleanup_task", !.pin = pin,
                                      !.due = RoomsExpired \ {pin}])
  /\ UNCHANGED << now, rooms, players, answers, socket_index, rate_limits,
                  broadcast, unicast, hist >>

\* close_room: the read of the room
close_room(k) ==
  /\ pc[k] = "close_room"
  /\ LET room == get_room_by_pin(frame[k].pin) IN
       IF room.id = 0 THEN CloseReturn(k)
       ELSE Goto(k, "close_room_update", [frame[k] EXCEPT !.room_id = room.id])
  /\ UNCHANGED << now, rooms, players, answers, socket_index, rate_limits,
                  broadcast, unicast, hist >>

\* UPDATE rooms SET closed_at=now(), state='FINISHED', last_activity_at=now()
\*   WHERE id=%s; socketio.emit("room_closed", ...)
close_room_update(k) ==
  /\ pc[k] = "close_room_update"
  /\ rooms' = [rooms EXCEPT ![frame[k].room_id] =
                 [@ EXCEPT !.closed_at = now, !.state = "FINISHED",
                           !.last_activity_at = now]]
  /\ socketio_emit(Event("room_closed", frame[k].pin, NULL, NULL, NULL, 0))
  /\ CloseReturn(k)
  /\ UNCHANGED << now, players, answers, socket_index, rate_limits, unicast, hist >>

\* ------------------------------------------------------------------- restart

\* The process dies and is started again: the handlers and loops in flight are
\* gone, socket_index and rate_limits are empty, the store is as it was.
Crash ==
  /\ hist.crashes < MaxCrashes
  /\ hist' = [hist EXCEPT !.crashes = @ + 1]
  /\ pc' = [p \in Procs |-> "idle"]
  /\ frame' = [p \in Procs |-> EmptyFrame]
  /\ socket_index' = [s \in Sids |-> NoMeta]
  /\ rate_limits' = [k \in DOMAIN rate_limits |-> << >>]
  /\ UNCHANGED << now, rooms, players, answers, broadcast, unicast >>

\* ------------------------------------------------------------- specifications

Player(room_id, player_token) ==
  [room_id |-> room_id, player_token |-> player_token, score |-> 0,
   connected |-> TRUE, last_seen_at |-> now]

Meta(pin, role, token) == [pin |-> pin, role |-> role, token |-> token]

RateKeys == {"create", "join", "answer"} \X Sids

Registered ==
  [s \in Sids |-> IF s \in HostSids THEN Meta("P1", "host", "HT")
                  ELSE IF s \in PlayerSids THEN Meta("P1", "player", "T1")
                  ELSE NoMeta]

\* A room created by h1 (create_room), a second host connection h2 registered by
\* reconnect_host, one player joined through p1 (join_room); nothing in flight.
Init ==
  /\ now = 0
  /\ rooms = << Room(1, "P1", "HT") >>
  /\ players = {Player(1, "T1")}
  /\ answers = {}
  /\ socket_index = Registered
  /\ rate_limits = [k \in RateKeys |-> << >>]
  /\ pc = [p \in Procs |-> "idle"]
  /\ frame = [p \in Procs |-> EmptyFrame]
  /\ broadcast = << >>
  /\ unicast = NoMessage
  /\ hist = NoHistory

HostStep(sid) ==
  \/ \E pin \in PinInputs, token \in TokenInputs : start_game(sid, pin, token)
  \/ start_game_update(sid)
  \/ \E pin \in PinInputs, token \in TokenInputs : next_question(sid, pin, token)
  \/ next_question_update(sid)
  \/ next_question_finish(sid)
  \/ next_question_emit(sid)
  \/ start_question(sid)
  \/ start_question_update(sid)
  \/ start_question_emit(sid)

PlayerStep(sid) ==
  \/ \E pin \in PinInputs, option \in OptionInputs, token \in TokenInputs :
       submit_answer(sid, pin, option, token)
  \/ submit_answer_insert(sid)
  \/ submit_answer_touch(sid)

WatchdogStep(w) ==
  \/ watchdog_task(w)
  \/ finish_question_if_due(w)
  \/ finish_lock(w)
  \/ finish_fetch(w)
  \/ finish_score(w)
  \/ finish_emit(w)

Next ==
  \/ Tick
  \/ \E sid \in HostSids : HostStep(sid)
  \/ \E sid \in PlayerSids : PlayerStep(sid)
  \/ WatchdogStep("w1")

Spec == Init /\ [][Next]_vars

\* Concurrent finalization: a room in QUESTION at its deadline, any set of answers
\* of two players stored, and several executions of the watchdog's round.
AnswerChoices(token, q_index) ==
  {{}} \cup {{[room_id |-> 1, player_token |-> token, question_index |-> q_index,
               option_index |-> o, answered_at |-> t]} :
             o \in OptionInputs, t \in {0, Question(q_index).duration}}

\* a room in QUESTION at its deadline; its host connected, or gone for more than
\* ROOM_TTL_SECONDS
AtDeadline(HostStates) ==
  /\ now = 15
  /\ \E q_index \in 0..(Len(QUESTIONS) - 1), connected \in HostStates :
       /\ rooms = << [Room(1, "P1", "HT") EXCEPT
                        !.state = "QUESTION", !.current_question_index = q_index,
                        !.question_started_at = 0,
                        !.question_ends_at = Question(q_index).duration,
                        !.host_connected = connected,
                        !.host_disconnected_at =
                           IF connected THEN NULL ELSE now - ROOM_TTL_SECONDS - 1] >>
       /\ \E a1 \in AnswerChoices("T1", q_index), a2 \in AnswerChoices("T2", q_index) :
            answers = a1 \cup a2
       /\ hist = [NoHistory EXCEPT !.entered[1] =
            [last |-> q_index, all |-> 0..q_index,
             finalized |-> IF q_index = 0 THEN NULL ELSE q_index - 1]]
  /\ players = {Player(1, "T1"), Player(1, "T2")}
  /\ socket_index = Registered
  /\ rate_limits = [k \in RateKeys |-> << >>]
  /\ pc = [p \in Procs |-> "idle"]
  /\ frame = [p \in Procs |-> EmptyFrame]
  /\ broadcast = << >>
  /\ unicast = NoMessage

InitFinalize == AtDeadline({TRUE})

NextFinalize ==
  \/ Tick
  \/ \E w \in Watchdogs : WatchdogStep(w)

SpecFinalize == InitFinalize /\ [][NextFinalize]_vars

\* Restarts: the watchdog and the cleanup sweeper of one process, which may die
\* and start again between any two statements.
CleanupStep(k) ==
  \/ cleanup_task(k)
  \/ close_room(k)
  \/ close_room_update(k)

InitCrash == AtDeadline(BOOLEAN)

NextCrash ==
  \/ Tick
  \/ WatchdogStep("w1")
  \/ CleanupStep("k1")
  \/ Crash

SpecCrash ==
  /\ InitCrash
  /\ [][NextCrash]_vars
  /\ WF_vars(WatchdogStep("w1"))
  /\ WF_vars(CleanupStep("k1"))

\* The registry: two rooms, each with its host token and a player, at one moment
\* of the clock; connections that disconnect, reconnect in any role and present
\* any pin and secret to the guarded handlers.
RegistryPins == {"P1", "P2"}
RegistryTokens == {"HT", "HT2", "T1", "T2"}
RegistrySids == {"c1"}

\* room 1 in the lobby, or with the results of one of its questions
Finalized(q_index) ==
  [Room(1, "P1", "HT") EXCEPT
     !.state = "RESULTS", !.current_question_index = q_index,
     !.question_started_at = 0, !.question_ends_at = Question(q_index).duration]

InitRegistry ==
  /\ now = 30
  /\ \/ /\ rooms = << Room(1, "P1", "HT"), Room(2, "P2", "HT2") >>
        /\ hist = [NoHistory EXCEPT !.entered =
             [id \in {1, 2} |-> [last |-> NULL, all |-> {}, finalized |-> NULL]]]
     \/ \E q_index \in 0..(Len(QUESTIONS) - 1) :
          /\ rooms = << Finalized(q_index), Room(2, "P2", "HT2") >>
          /\ hist = [NoHistory EXCEPT !.entered =
               [id \in {1, 2} |->
                  IF id = 1 THEN [last |-> q_index, all |-> 0..q_index,
                                  finalized |-> q_index]
                  ELSE [last |-> NULL, all |-> {}, finalized |-> NULL]]]
  /\ players = {Player(1, "T1"), Player(2, "T2")}
  /\ answers = {}
  /\ socket_index = Registered
  /\ rate_limits = [k \in RateKeys |-> << >>]
  /\ pc = [p \in Procs |-> "idle"]
  /\ frame = [p \in Procs |-> EmptyFrame]
  /\ broadcast = << >>
  /\ unicast = NoMessage

RegistryStep(sid) ==
  \/ on_disconnect(sid)
  \/ on_disconnect_update(sid)
  \/ \E pin \in RegistryPins, token \in RegistryTokens : reconnect_player(sid, pin, token)
  \/ reconnect_player_find(sid)
  \/ reconnect_player_update(sid)
  \/ reconnect_player_touch(sid)
  \/ reconnect_player_results(sid)
  \/ \E pin \in RegistryPins, token \in RegistryTokens : reconnect_host(sid, pin, token)
  \/ reconnect_host_update(sid)
  \/ reconnect_host_players(sid)
  \/ reconnect_host_results(sid)
  \/ \E pin \in RegistryPins, token \in RegistryTokens : start_game(sid, pin, token)
  \/ start_game_update(sid)
  \/ \E pin \in RegistryPins, token \in RegistryTokens : next_question(sid, pin, token)
  \/ next_question_update(sid)
  \/ next_question_finish(sid)
  \/ next_question_emit(sid)
  \/ start_question(sid)
  \/ start_question_update(sid)
  \/ start_question_emit(sid)
  \/ \E pin \in RegistryPins, token \in RegistryTokens :
       submit_answer(sid, pin, 1, token)
  \/ submit_answer_insert(sid)
  \/ submit_answer_touch(sid)

NextRegistry == \E sid \in RegistrySids : RegistryStep(sid)

SpecRegistry == InitRegistry /\ [][NextRegistry]_vars

\* The rate limiter by itself: one key, any limit and window, attempts at any
\* second.
InitRateLimit ==
  /\ now = 0
  /\ rooms = << >>
  /\ players = {}
  /\ answers = {}
  /\ socket_index = [s \in Sids |-> NoMeta]
  /\ rate_limits = [k \in RateKeys |-> << >>]
  /\ pc = [p \in Procs |-> "idle"]
  /\ \E limit \in 1..MaxLimit, window \in 1..MaxWindow :
       frame = [p \in Procs |->
                  IF p = "c1" THEN [EmptyFrame EXCEPT !.handler = "is_rate_limited",
                                                      !.limit = limit, !.window = window]
                  ELSE EmptyFrame]
  /\ broadcast = << >>
  /\ unicast = NoMessage
  /\ hist = NoHistory

NextRateLimit ==
  \/ Second
  \/ rate_limited_call("c1")

SpecRateLimit == InitRateLimit /\ [][NextRateLimit]_vars

\* The cleanup sweeper and the host: a room whose host is connected or has been
\* gone for more than ROOM_TTL_SECONDS; a connection that reconnects as the host
\* and disconnects; the watchdog.
NextCleanup ==
  \/ Tick
  \/ WatchdogStep("w1")
  \/ CleanupStep("k1")
  \/ \E pin \in PinInputs, token \in TokenInputs : reconnect_host("c1", pin, token)
  \/ reconnect_host_update("c1")
  \/ reconnect_host_players("c1")
  \/ reconnect_host_results("c1")
  \/ on_disconnect("c1")
  \/ on_disconnect_update("c1")

SpecCleanup == InitCrash /\ [][NextCleanup]_vars

\* Scoring: a room still in QUESTION after its deadline, with any answers of two
\* players stored at the start, in the middle, at the deadline and after it;
\* the watchdog finalizes.
ScoringTimes == {0, 7, 15, 30}

InitScoring ==
  /\ now = 30
  /\ \E q_index \in 0..(Len(QUESTIONS) - 1) :
       /\ rooms = << [Room(1, "P1", "HT") EXCEPT
                        !.state = "QUESTION", !.current_question_index = q_index,
                        !.question_started_at = 0,
                        !.question_ends_at = Question(q_index).duration] >>
       /\ \E a1 \in {{}} \cup {{[room_id |-> 1, player_token |-> "T1",
                                  question_index |-> q_index, option_index |-> o,
                                  answered_at |-> t]} :
                                o \in OptionInputs, t \in ScoringTimes},
             a2 \in {{}} \cup {{[room_id |-> 1, player_token |-> "T2",
                                  question_index |-> q_index, option_index |-> o,
                                  answered_at |-> t]} :
                                o \in OptionInputs, t \in ScoringTimes} :
            answers = a1 \cup a2
       /\ hist = [NoHistory EXCEPT !.entered[1] =
            [last |-> q_index, all |-> 0..q_index,
             finalized |-> IF q_index = 0 THEN NULL ELSE q_index - 1]]
  /\ players = {Player(1, "T1"), Player(1, "T2")}
  /\ socket_index = Registered
  /\ rate_limits = [k \in RateKeys |-> << >>]
  /\ pc = [p \in Procs |-> "idle"]
  /\ frame = [p \in Procs |-> EmptyFrame]
  /\ broadcast = << >>
  /\ unicast = NoMessage

NextScoring == WatchdogStep("w1")

SpecScoring == InitScoring /\ [][NextScoring]_vars

\* Joining: room P1 in the lobby or in its first question with an answer, room
\* P2 full, room P3 finished and closed; a connection joins with any pin and
\* name and disconnects; the player of P1 disconnects and reconnects; the host,
\* the watchdog and the cleanup sweeper run.
FullTokens ==
  {"F01", "F02", "F03", "F04", "F05", "F06", "F07", "F08", "F09", "F10",
   "F11", "F12", "F13", "F14", "F15", "F16", "F17", "F18", "F19", "F20",
   "F21", "F22", "F23", "F24", "F25", "F26", "F27", "F28", "F29", "F30",
   "F31", "F32", "F33", "F34", "F35", "F36", "F37", "F38", "F39", "F40",
   "F41", "F42", "F43", "F44", "F45", "F46", "F47", "F48", "F49", "F50"}
JoinPins == {"P1", "P2", "P3", "PX", "12345"}
JoinNames == {"ann", "", "over40"}

InitJoin ==
  /\ now = 0
  /\ \/ /\ rooms = << Room(1, "P1", "HT"), Room(2, "P2", "HT2"),
                       [Room(3, "P3", "HT3") EXCEPT !.state = "FINISHED",
                                                    !.closed_at = 0] >>
        /\ answers = {}
        /\ hist = [NoHistory EXCEPT !.entered =
             [id \in {1, 2, 3} |-> [last |-> NULL, all |-> {}, finalized |-> NULL]]]
     \/ /\ rooms = << [Room(1, "P1", "HT") EXCEPT
                         !.state = "QUESTION", !.current_question_index = 0,
                         !.question_started_at = 0,
                         !.question_ends_at = Question(0).duration],
                       Room(2, "P2", "HT2"),
                       [Room(3, "P3", "HT3") EXCEPT !.state = "FINISHED",
                                                    !.closed_at = 0] >>
        /\ answers = {[room_id |-> 1, player_token |-> "T1", question_index |-> 0,
                       option_index |-> Question(0).correct_index, answered_at |-> 0]}
        /\ hist = [NoHistory EXCEPT !.entered =
             [id \in {1, 2, 3} |->
                IF id = 1 THEN [last |-> 0, all |-> {0}, finalized |-> NULL]
                ELSE [last |-> NULL, all |-> {}, finalized |-> NULL]]]
  /\ players = {Player(1, "T1")} \cup {Player(2, token) : token \in FullTokens}
  /\ socket_index = Registered
  /\ rate_limits = [k \in RateKeys |-> << >>]
  /\ pc = [p \in Procs |-> "idle"]
  /\ frame = [p \in Procs |-> EmptyFrame]
  /\ broadcast = << >>
  /\ unicast = NoMessage

JoinStep(sid) ==
  \/ \E pin \in JoinPins, name \in JoinNames : join_game(sid, pin, name)
  \/ join_count(sid)
  \/ join_insert(sid)
  \/ join_touch(sid)
  \/ on_disconnect(sid)
  \/ on_disconnect_update(sid)

NextJoin ==
  \/ Tick
  \/ JoinStep("c1")
  \/ WatchdogStep("w1")

SpecJoin == InitJoin /\ [][NextJoin]_vars

\* Two connections of the host: the one that created the room and a second one
\* registered by reconnect_host; each disconnects and reconnects, the TTL passes,
\* the sweeper runs.
HostsStep(sid) ==
  \/ on_disconnect(sid)
  \/ on_disconnect_update(sid)
  \/ reconnect_host(sid, "P1", "HT")
  \/ reconnect_host_update(sid)
  \/ reconnect_host_players(sid)
  \/ reconnect_host_results(sid)

NextHosts ==
  \/ Expire
  \/ \E sid \in HostSids : HostsStep(sid)
  \/ CleanupStep("k1")

SpecHosts == InitRegistry /\ [][NextHosts]_vars

\* Abandoned rooms: a room created through connection c1, which then sends
\* create_room or join_room and disconnects; the process
\* restarts; then more than ROOM_TTL_SECONDS pass with no handler in flight and
\* no further event (the host never reconnects), and the sweeper runs.
InitAbandon ==
  /\ now = 0
  /\ rooms = << Room(1, "P1", "HT") >>
  /\ players = {Player(1, "T1")}
  /\ answers = {}
  /\ hist = [NoHistory EXCEPT !.entered =
       [id \in {1} |-> [last |-> NULL, all |-> {}, finalized |-> NULL]]]
  /\ socket_index = [s \in Sids |-> IF s = "c1" THEN Meta("P1", "host", "HT") ELSE NoMeta]
  /\ rate_limits = [k \in RateKeys |-> << >>]
  /\ pc = [p \in Procs |-> "idle"]
  /\ frame = [p \in Procs |-> EmptyFrame]
  /\ broadcast = << >>
  /\ unicast = NoMessage

\* the events of a connection, sent before the TTL has passed
AbandonStep(sid) ==
  \/ now <= MaxTime /\ create_room(sid)
  \/ generate_unique_pin(sid)
  \/ create_room_insert(sid)
  \/ create_room_register(sid)
  \/ now <= MaxTime /\ join_game(sid, "P1", "ann")
  \/ join_count(sid)
  \/ join_insert(sid)
  \/ join_touch(sid)
  \/ now <= MaxTime /\ on_disconnect(sid)
  \/ on_disconnect_update(sid)

\* the TTL passes while no handler of a connection is in flight
Elapse ==
  /\ \A sid \in Sids : pc[sid] = "idle"
  /\ Expire

NextAbandon ==
  \/ AbandonStep("c1")
  \/ Elapse
  \/ CleanupStep("k1")
  \/ Crash

SpecAbandon ==
  /\ InitAbandon
  /\ [][NextAbandon]_vars
  /\ WF_vars(AbandonStep("c1"))
  /\ SF_vars(Elapse)
  /\ WF_vars(CleanupStep("k1"))

\* The last seat: a room one player short of MAX_PLAYERS_PER_ROOM and two
\* connections that send join_room for it, their handlers interleaved statement
\* by statement.
SeatSids == {"c1", "p1"}

InitSeat ==
  /\ now = 0
  /\ rooms = << Room(1, "P1", "HT") >>
  /\ players = {Player(1, token) : token \in FullTokens \ {"F50"}}
  /\ answers = {}
  /\ hist = NoHistory
  /\ socket_index = [s \in Sids |-> NoMeta]
  /\ rate_limits = [k \in RateKeys |-> << >>]
  /\ pc = [p \in Procs |-> "idle"]
  /\ frame = [p \in Procs |-> EmptyFrame]
  /\ broadcast = << >>
  /\ unicast = NoMessage

SeatStep(sid) ==
  \/ join_game(sid, "P1", "ann")
  \/ join_count(sid)
  \/ join_insert(sid)
  \/ join_touch(sid)

NextSeat == \E sid \in SeatSids : SeatStep(sid)

SpecSeat == InitSeat /\ [][NextSeat]_vars

\* Creating rooms: room P1 open, room P3 closed; two connections send
\* create_room again and again, their handlers interleaved statement by
\* statement, while the sweeper closes the room whose host has gone.
CreateSids == {"c1", "p1"}

InitCreate ==
  /\ now = 0
  /\ rooms = << [Room(1, "P1", "HT") EXCEPT
                   !.host_connected = FALSE,
                   !.host_disconnected_at = now - ROOM_TTL_SECONDS - 1],
                [Room(2, "P3", "HT3") EXCEPT !.state = "FINISHED", !.closed_at = 0] >>
  /\ players = {Player(1, "T1")}
  /\ answers = {}
  /\ hist = [NoHistory EXCEPT !.entered =
       [id \in {1, 2} |-> [last |-> NULL, all |-> {}, finalized |-> NULL]]]
  /\ socket_index = [s \in Sids |-> NoMeta]
  /\ rate_limits = [k \in RateKeys |-> << >>]
  /\ pc = [p \in Procs |-> "idle"]
  /\ frame = [p \in Procs |-> EmptyFrame]
  /\ broadcast = << >>
  /\ unicast = NoMessage

CreateStep(sid) ==
  \/ create_room(sid)
  \/ generate_unique_pin(sid)
  \/ create_room_insert(sid)
  \/ create_room_register(sid)

NextCreate ==
  \/ \E sid \in CreateSids : CreateStep(sid)
  \/ CleanupStep("k1")

SpecCreate == InitCreate /\ [][NextCreate]_vars

\* Every operation around a player's score: the room is in its first or second
\* question, past the deadline, its host gone for longer than the TTL; the
\* player has answered each question so far and holds the points of the first.
\* One connection sends any event (join_room, reconnect_player, reconnect_host,
\* submit_answer, next_question) and disconnects, while the watchdog finalizes
\* and the sweeper closes.
InitScores ==
  /\ now = 40
  /\ \E q_index \in 0..(Len(QUESTIONS) - 1) :
       /\ rooms = << [Room(1, "P1", "HT") EXCEPT
                        !.state = "QUESTION", !.current_question_index = q_index,
                        !.question_started_at = 20 * q_index,
                        !.question_ends_at = 20 * q_index + Question(q_index).duration,
                        !.host_connected = FALSE,
                        !.host_disconnected_at = now - ROOM_TTL_SECONDS - 1] >>
       /\ answers = {[room_id |-> 1, player_token |-> "T1", question_index |-> i,
                       option_index |-> Question(i).correct_index,
                       answered_at |-> 25 * i] : i \in 0..q_index}
       /\ hist = [NoHistory EXCEPT !.entered[1] =
            [last |-> q_index, all |-> 0..q_index,
             finalized |-> IF q_index = 0 THEN NULL ELSE q_index - 1]]
       /\ players = {[Player(1, "T1") EXCEPT !.score =
            IF q_index = 0 THEN 0 ELSE Points(Question(0).duration, 0, Question(0).duration)]}
  /\ socket_index = [s \in Sids |-> NoMeta]
  /\ rate_limits = [k \in RateKeys |-> << >>]
  /\ pc = [p \in Procs |-> "idle"]
  /\ frame = [p \in Procs |-> EmptyFrame]
  /\ broadcast = << >>
  /\ unicast = NoMessage

ScoresStep(sid) ==
  \/ join_game(sid, "P1", "ann")
  \/ join_count(sid)
  \/ join_insert(sid)
  \/ join_touch(sid)
  \/ on_disconnect(sid)
  \/ on_disconnect_update(sid)
  \/ reconnect_player(sid, "P1", "T1")
  \/ reconnect_player_find(sid)
  \/ reconnect_player_update(sid)
  \/ reconnect_player_touch(sid)
  \/ reconnect_player_results(sid)
  \/ reconnect_host(sid, "P1", "HT")
  \/ reconnect_host_update(sid)
  \/ reconnect_host_players(sid)
  \/ reconnect_host_results(sid)
  \/ \E option \in OptionInputs : submit_answer(sid, "P1", option, "T1")
  \/ submit_answer_insert(sid)
  \/ submit_answer_touch(sid)
  \/ next_question(sid, "P1", "HT")
  \/ next_question_update(sid)
  \/ next_question_finish(sid)
  \/ next_question_emit(sid)
  \/ start_question(sid)
  \/ start_question_update(sid)
  \/ start_question_emit(sid)

NextScores ==
  \/ ScoresStep("c1")
  \/ WatchdogStep("w1")
  \/ CleanupStep("k1")

SpecScores == InitScores /\ [][NextScores]_vars

\* Reconnection during a game, from the lobby or from a question at its
\* deadline: the host h1 drives the game, a new connection c1 reconnects as the
\* host or as the player.
ReconnectStep(sid) ==
  \/ \E pin \in PinInputs, token \in TokenInputs : reconnect_player(sid, pin, token)
  \/ reconnect_player_find(sid)
  \/ reconnect_player_update(sid)
  \/ reconnect_player_touch(sid)
  \/ reconnect_player_results(sid)
  \/ \E pin \in PinInputs, token \in TokenInputs : reconnect_host(sid, pin, token)
  \/ reconnect_host_update(sid)
  \/ reconnect_host_players(sid)
  \/ reconnect_host_results(sid)

NextReconnect ==
  \/ Tick
  \/ HostStep("h1")
  \/ \E sid \in NewSids : ReconnectStep(sid)
  \/ WatchdogStep("w1")

SpecReconnect == (Init \/ InitFinalize) /\ [][NextReconnect]_vars

\* ------------------------------------------------------------------ claims

RoomIds == 1..Len(rooms)

\* the fields of a room record that the state machine writes
RoomCore(r) == << r.current_question_index, r.state, r.question_started_at,
                  r.question_ends_at >>

\* C2: every stored answer row is read by exactly one scoring pass: never by two,
\* and by one as soon as a scoring pass of its room and question index has run.
C2_AnswerConsumedExactlyOnce ==
  \A a \in answers :
    /\ BagCount(hist.fetched, AnswerKey(a)) <= 1
    /\ BagCount(hist.passes, << a.room_id, a.question_index >>) >= 1
         => BagCount(hist.fetched, AnswerKey(a)) = 1

\* C3: a step inserts an answer row only when the stored room is in QUESTION for
\* the row's question index and the stored deadline has not passed.
C3_InsertOnlyInOpenQuestion ==
  [][\A a \in answers' \ answers :
       /\ rooms[a.room_id].state = "QUESTION"
       /\ rooms[a.room_id].current_question_index = a.question_index
       /\ rooms[a.room_id].question_ends_at # NULL
       /\ ~(now > rooms[a.room_id].question_ends_at)]_vars

\* C4: a room's state changes only along LOBBY->QUESTION, QUESTION->RESULTS,
\* RESULTS->QUESTION, RESULTS->FINISHED or, on close, to FINISHED; a FINISHED or
\* closed room keeps its state, question index and question timestamps.
C4_NeverBackward ==
  [][\A id \in RoomIds :
       /\ rooms'[id].state # rooms[id].state =>
            \/ << rooms[id].state, rooms'[id].state >> \in
                 {<< "LOBBY", "QUESTION" >>, << "QUESTION", "RESULTS" >>,
                  << "RESULTS", "QUESTION" >>, << "RESULTS", "FINISHED" >>}
            \/ /\ rooms'[id].state = "FINISHED"
               /\ rooms[id].closed_at = NULL
               /\ rooms'[id].closed_at # NULL
       /\ (rooms[id].state = "FINISHED" \/ rooms[id].closed_at # NULL) =>
            /\ rooms'[id].state = "FINISHED"
            /\ RoomCore(rooms'[id]) = RoomCore(rooms[id])]_vars

C6_FinalizedOnlyPastDeadline ==
  [][\A id \in RoomIds :
       (rooms[id].state = "QUESTION" /\ rooms'[id].state = "RESULTS") =>
         (rooms[id].question_ends_at # NULL /\ now > rooms[id].question_ends_at)]_vars

C8_EndsAtIffEntered ==
  \A id \in RoomIds :
    /\ rooms[id].state \in {"LOBBY", "QUESTION", "RESULTS", "FINISHED"}
    /\ rooms[id].question_ends_at # NULL
         <=> rooms[id].current_question_index \in hist.entered[id].all

\* the executions that hold the finalize lock: past the conditional UPDATE
Finalizing == {w \in Watchdogs : pc[w] \in {"finish_fetch", "finish_score"}}

\* the score the answers of the room's current question are worth to a player
ScoreDue(token) ==
  LET q == rooms[1].current_question_index
      mine == {a \in answers : a.player_token = token /\ a.question_index = q
                               /\ a.option_index = Question(q).correct_index}
  IN IF mine = {} THEN 0
     ELSE LET a == CHOOSE x \in mine : TRUE
          IN Points(rooms[1].question_ends_at, a.answered_at, Question(q).duration)

\* C1: of the executions of finish_question_if_due on an overdue room exactly one
\* takes the lock, scores and emits question_results (once, with every correct
\* answer scored once); a step of any other execution leaves the store and the
\* broadcasts as they are.
C1_ExactlyOneFinalizer ==
  /\ [](/\ Cardinality(Finalizing) + Emitted("question_results", "P1") <= 1
        /\ rooms[1].state = "RESULTS" =>
             Cardinality(Finalizing) + Emitted("question_results", "P1") = 1
        /\ BagCount(hist.passes, << 1, rooms[1].current_question_index >>) <= 1
        /\ Emitted("question_results", "P1") = 1 =>
             \A r \in players : r.score = ScoreDue(r.player_token))
  /\ [][(store' # store \/ broadcast' # broadcast) =>
          \E w \in Watchdogs :
            /\ pc'[w] # pc[w] \/ frame'[w] # frame[w]
            /\ pc[w] \in {"finish_fetch", "finish_score"}
                 \/ pc'[w] \in {"finish_fetch", "finish_score"}]_vars

\* C1's case: one execution is scoring a correct answer while another, which read
\* the room in QUESTION before, is about to try the lock.
C1_Witness ==
  \E w \in Watchdogs, v \in Watchdogs :
    /\ w # v
    /\ pc[w] = "finish_score" /\ Scoring(w) # {}
    /\ pc[v] = "finish_lock"

\* C10: a reconnect payload that reports RESULTS carries the correct_index of
\* the question the room was last finalized for.
C10_ResultsOfLastFinalized ==
  [][\A sid \in Sids :
       (/\ pc[sid] \in {"reconnect_player_touch", "reconnect_player_results",
                        "reconnect_host_players", "reconnect_host_results"}
        /\ pc'[sid] = "idle"
        /\ unicast'.event \in {"reconnected", "host_reconnected"}
        /\ unicast'.state = "RESULTS")
       => /\ hist.entered[frame[sid].room_id].finalized # NULL
          /\ unicast'.correct_index =
               Question(hist.entered[frame[sid].room_id].finalized).correct_index]_vars

\* an open room in QUESTION whose deadline has passed
OverdueQuestion ==
  /\ rooms[1].closed_at = NULL
  /\ rooms[1].state = "QUESTION"
  /\ rooms[1].question_ends_at # NULL
  /\ rooms[1].question_ends_at < now

\* the room is in RESULTS and every answer of its question has been scored once
Scored ==
  /\ rooms[1].state = "RESULTS"
  /\ \A r \in players : r.score = ScoreDue(r.player_token)

\* C9: with restarts of the process between any two statements, an open room in
\* QUESTION past its deadline is eventually in RESULTS with the answers of the
\* question scored exactly once, or is closed.
C9_RestartsKeepFinalization ==
  OverdueQuestion ~> (Scored \/ rooms[1].closed_at # NULL)

\* the question_started events broadcast for a question index of the room
Started(q_index) ==
  {e \in DOMAIN broadcast : e.event = "question_started" /\ e.pin = "P1"
                            /\ e.index = q_index}

ReconnectPcs == {"reconnect_player_find", "reconnect_player_update",
                 "reconnect_player_touch", "reconnect_player_results",
                 "reconnect_host_update", "reconnect_host_players",
                 "reconnect_host_results"}

\* a step of a reconnect handler of connection sid
ReconnectMove(sid) ==
  /\ pc'[sid] # pc[sid]
  /\ pc[sid] \in ReconnectPcs \/ pc'[sid] \in ReconnectPcs

\* a step in which a reconnect handler of connection sid rejects the request
ReconnectRejected(sid) ==
  /\ pc[sid] \in {"idle", "reconnect_player_find"}
  /\ pc'[sid] = "idle"
  /\ unicast'.event = "reconnect_error"
  /\ unicast' # unicast \/ pc'[sid] # pc[sid]

\* what a player row is apart from its liveness flag and timestamp
PlayerCore(r) == << r.room_id, r.player_token, r.score >>

\* C12: a step of reconnect_player or reconnect_host leaves the state, question
\* index, question timestamps and closed_at of every room, every score and every
\* answer as they are; it changes at most the liveness of the caller's identity,
\* last_activity_at and the caller's entry of socket_index; a rejected reconnect
\* changes nothing.
C12_ReconnectKeepsRoomState ==
  [][\A sid \in Sids :
       (ReconnectMove(sid) \/ ReconnectRejected(sid))
       => /\ \A id \in RoomIds :
               /\ RoomCore(rooms'[id]) = RoomCore(rooms[id])
               /\ rooms'[id].closed_at = rooms[id].closed_at
               /\ rooms'[id].pin = rooms[id].pin
               /\ rooms'[id].host_token = rooms[id].host_token
          /\ Len(rooms') = Len(rooms)
          /\ answers' = answers
          /\ {PlayerCore(r) : r \in players'} = {PlayerCore(r) : r \in players}
          /\ Cardinality(players') = Cardinality(players)
          /\ \A r \in players' \ players : r.player_token = frame[sid].token
          /\ \A t \in Sids \ {sid} : socket_index'[t] = socket_index[t]
          /\ ReconnectRejected(sid)
               => store' = store /\ socket_index' = socket_index]_vars

\* C12's case: a connection reconnected as a player of a started game and is
\* registered again.
C12_Witness ==
  /\ unicast.event = "reconnected"
  /\ unicast.state # "LOBBY"
  /\ socket_index["c1"] = Meta("P1", "player", "T1")
  /\ \E r \in players : r.player_token = "T1" /\ r.last_seen_at > 0

\* the role a guarded handler demands of its caller
RoleOf(handler) == IF handler = "submit_answer" THEN "player" ELSE "host"

\* C13: a step of start_game, next_question or submit_answer changes the store
\* only while the calling connection is registered in socket_index with the
\* presented role, pin and secret, and the secret is the host_token of the room
\* (host) or the token of a player of the room (player).
C13_RegisteredCallerOnly ==
  [][\A sid \in Sids :
       (/\ pc'[sid] # pc[sid]
        /\ frame[sid].handler \in {"start_game", "next_question", "submit_answer"}
        /\ store' # store)
       => /\ socket_index[sid] =
               Meta(frame[sid].pin, RoleOf(frame[sid].handler), frame[sid].token)
          /\ rooms[frame[sid].room_id].pin = frame[sid].pin
          /\ IF frame[sid].handler = "submit_answer"
               THEN \E r \in players : /\ r.room_id = frame[sid].room_id
                                       /\ r.player_token = frame[sid].token
               ELSE rooms[frame[sid].room_id].host_token = frame[sid].token]_vars

\* C13's case: the connection, registered by reconnect_player after it had
\* started the game as the host, has stored an answer.
C13_Witness ==
  /\ pc["c1"] = "submit_answer_touch"
  /\ socket_index["c1"] = Meta("P1", "player", "T1")
  /\ \E a \in answers : a.player_token = "T1" /\ a.room_id = 1

\* C14: the store holds at most one answer row for (room, player, question
\* index); a stored row is never changed or removed, so it is the first accepted
\* submission; and points are only ever added for a row that is stored.
C14_AnswerIdempotence ==
  /\ [](\A a, b \in answers : AnswerKey(a) = AnswerKey(b) => a = b)
  /\ [][/\ answers \subseteq answers'
        /\ \A r \in players, q \in players' :
             (PlayerCore(r) # PlayerCore(q) /\ r.room_id = q.room_id
              /\ r.player_token = q.player_token)
             => \E w \in Watchdogs, a \in answers :
                  /\ a \in frame[w].answers
                  /\ a.player_token = r.player_token
                  /\ a.room_id = r.room_id
                  /\ q.score = r.score + Points(frame[w].ends_at, a.answered_at,
                                                Question(a.question_index).duration)]_vars

\* C14's case: a second submission of the player, with another option, has gone
\* through the INSERT and left the stored row as it was.
C14_Witness ==
  /\ pc["p1"] = "submit_answer_touch"
  /\ \E a \in answers :
       /\ a.player_token = frame["p1"].token
       /\ a.room_id = frame["p1"].room_id
       /\ a.question_index = frame["p1"].q_index
       /\ a.option_index # frame["p1"].option

\* the attempts admitted so far whose time t has now - t < window
RecentlyAdmitted(window) ==
  {i \in 1..Len(hist.admitted) : now - hist.admitted[i] < window}

\* C15: is_rate_limited admits an attempt exactly when fewer than limit admitted
\* attempts are less than window old; a denied attempt is not recorded; and no
\* interval shorter than window holds more than limit admitted attempts.
C15_RateLimiter ==
  /\ [][hist'.attempts # hist.attempts =>
          LET limit == frame["c1"].limit
              window == frame["c1"].window
              bucket == rate_limits[<< "answer", "c1" >>]
          IN /\ (hist'.admitted # hist.admitted)
                  <=> Cardinality(RecentlyAdmitted(window)) < limit
             /\ hist'.admitted = hist.admitted
                  => Len(rate_limits'[<< "answer", "c1" >>]) <= Len(bucket)
             /\ hist'.admitted # hist.admitted
                  => hist'.admitted = Append(hist.admitted, now)]_vars
  /\ [](\A t \in 0..MaxSeconds :
          Cardinality({i \in 1..Len(hist.admitted) :
                         /\ t <= hist.admitted[i]
                         /\ hist.admitted[i] < t + frame["c1"].window})
            <= frame["c1"].limit)

\* C15's case: limit attempts were admitted, one more was denied inside the
\* window, and one was admitted again once the window had passed.
C15_Witness ==
  /\ frame["c1"].limit = 2
  /\ frame["c1"].window = 3
  /\ hist.admitted = << 0, 1, 3, 4 >>
  /\ hist.attempts = 6

\* C16: the cleanup sweeper closes a room only while the room's host_connected
\* is false and its host_disconnected_at is more than ROOM_TTL_SECONDS old.
C16_ClosedOnlyWhileHostGone ==
  [][\A id \in RoomIds :
       (/\ rooms[id].closed_at = NULL
        /\ rooms'[id].closed_at # NULL
        /\ \E k \in Cleaners : pc[k] = "close_room_update" /\ pc'[k] # pc[k])
       => /\ rooms[id].host_connected = FALSE
          /\ rooms[id].host_disconnected_at # NULL
          /\ rooms[id].host_disconnected_at < now - ROOM_TTL_SECONDS]_vars

\* what the answer of a player to the room's question is worth: 1000 plus the
\* share of 500 of the time left, for the correct option; nothing otherwise
Worth(token) ==
  LET q == rooms[1].current_question_index
      e == rooms[1].question_ends_at
      d == Question(q).duration
      mine == {a \in answers : a.player_token = token /\ a.question_index = q}
  IN IF mine = {} THEN 0
     ELSE LET a == CHOOSE x \in mine : TRUE
          IN IF a.option_index # Question(q).correct_index THEN 0
             ELSE IF e - a.answered_at <= 0 THEN 1000
             ELSE IF e - a.answered_at = d THEN 1500
             ELSE 1000 + ((e - a.answered_at) * 500) \div d

\* C17: a finalized question has added to each player exactly what the answer
\* is worth, and every change of a score on the way adds the worth of that
\* player's answer.
C17_ScoringFormula ==
  /\ [](Emitted("question_results", "P1") = 1
          => \A r \in players : r.score = Worth(r.player_token))
  /\ [][\A r \in players, q \in players' :
          (r.player_token = q.player_token /\ r.score # q.score)
          => q.score = r.score + Worth(r.player_token) /\ Worth(r.player_token) > 0]_vars

\* C17's case: a finalized question with a correct answer in the middle of the
\* question and a correct answer after the deadline.
C17_Witness ==
  /\ Emitted("question_results", "P1") = 1
  /\ \E r \in players : r.score = 1266
  /\ \E r \in players : r.score = 1000
  /\ \E a \in answers : a.answered_at = 30
                        /\ a.option_index = Question(a.question_index).correct_index

\* C18: no step lowers the score of a player row, no player row disappears, a
\* row that appears has score 0, and no score is negative.
C18_ScoreNeverDecreases ==
  /\ [][/\ \A r \in players : \E q \in players' :
             /\ q.room_id = r.room_id
             /\ q.player_token = r.player_token
             /\ q.score >= r.score
        /\ \A q \in players' :
             (\A r \in players : r.room_id # q.room_id \/ r.player_token # q.player_token)
             => q.score = 0]_vars
  /\ [](\A r \in players : r.score >= 0)

\* C18's case: the player who held 1500 points has the points of the second
\* question added, next to a player who joined meanwhile and has none.
C18_Witness ==
  /\ \E r \in players : r.player_token = "T1" /\ r.score = 2833
  /\ \E r \in players : r.player_token \in NewTokens /\ r.score = 0
  /\ Emitted("question_results", "P1") = 1
  /\ rooms[1].closed_at # NULL

\* C19: no two rooms that are open (closed_at IS NULL) have the same pin.
C19_OpenPinsDistinct ==
  \A i \in RoomIds, j \in RoomIds :
    (i # j /\ rooms[i].closed_at = NULL /\ rooms[j].closed_at = NULL)
    => rooms[i].pin # rooms[j].pin

\* C19's case: two create_room handlers drew the same pin and both found it free;
\* the room of the first is inserted and open, the second is at its INSERT.
C19_Witness ==
  /\ socket_index["c1"].role = "host"
  /\ \E i \in RoomIds : /\ rooms[i].pin = socket_index["c1"].pin
                        /\ rooms[i].closed_at = NULL
                        /\ rooms[i].host_token = socket_index["c1"].token
  /\ pc["p1"] = "create_room_insert"
  /\ frame["p1"].pin = socket_index["c1"].pin

\* a step in which join_game of connection sid rejects the request
JoinRejected(sid) ==
  /\ pc[sid] \in {"idle", "join_count"}
  /\ pc'[sid] = "idle"
  /\ unicast'.event = "join_error"
  /\ unicast' # unicast \/ pc'[sid] # pc[sid] \/ rate_limits' # rate_limits

\* C20: a rejected join_room creates no player row, leaves the rooms as they are,
\* registers nothing in socket_index and broadcasts nothing; a join that goes on
\* to be rejected has not written before either.
C20_RejectedJoinHasNoEffect ==
  /\ [][\A sid \in Sids : JoinRejected(sid)
          => /\ store' = store
             /\ socket_index' = socket_index
             /\ broadcast' = broadcast]_vars
  /\ [][\A sid \in Sids : (pc[sid] = "idle" /\ pc'[sid] = "join_count")
          => /\ store' = store
             /\ socket_index' = socket_index
             /\ broadcast' = broadcast]_vars

\* C20's case: a join of the full room has been rejected after its count.
C20_Witness ==
  /\ unicast.event = "join_error"
  /\ unicast.message = "Room is full"
  /\ pc["c1"] = "idle"
  /\ Cardinality({r \in players : r.room_id = 2}) = MAX_PLAYERS_PER_ROOM
  /\ socket_index["c1"] = NoMeta

\* C21: no room holds more than MAX_PLAYERS_PER_ROOM player rows.
C21_RoomNeverOverfull ==
  \A id \in RoomIds :
    Cardinality({r \in players : r.room_id = id}) <= MAX_PLAYERS_PER_ROOM

\* the connections registered in socket_index as host of the room
RegisteredHosts(id) ==
  {sid \in Sids : /\ socket_index[sid].role = "host"
                  /\ socket_index[sid].pin = rooms[id].pin
                  /\ socket_index[sid].token = rooms[id].host_token}

\* C22: an open room with a connection registered as its host has host_connected
\* true, and the cleanup sweeper closes no room that has a registered host.
C22_HostFlagAgreesWithRegistry ==
  /\ [](\A id \in RoomIds :
          (rooms[id].closed_at = NULL /\ RegisteredHosts(id) # {})
          => rooms[id].host_connected)
  /\ [][\A id \in RoomIds :
          (/\ rooms[id].closed_at = NULL
           /\ rooms'[id].closed_at # NULL
           /\ \E k \in Cleaners : pc[k] = "close_room_update" /\ pc'[k] # pc[k])
          => RegisteredHosts(id) = {}]_vars

\* the ids a room can have: one room for each pin
RoomSlots == 1..Cardinality(PinDraws)

\* the room exists, is open and no connection is registered as its host
Abandoned(id) ==
  /\ id \in RoomIds
  /\ rooms[id].closed_at = NULL
  /\ RegisteredHosts(id) = {}

\* C23: an open room that no connection is registered for as host (and, the
\* host never reconnecting, never will be) is eventually closed.
C23_AbandonedRoomsAreClosed ==
  \A id \in RoomSlots :
    Abandoned(id) ~> (id \in RoomIds /\ rooms[id].closed_at # NULL)

====
